---- MODULE Spec2Model ----
(***************************************************************************)
(* Read Master Desktop: the native shell of the application.               *)
(*   menu.rs   create_menu   the menu bar, one tree per target platform    *)
(*   tray.rs   create_tray   the tray menu and its two event handlers      *)
(*   main.rs   main          the setup sequence and the close handler      *)
(* The main window is a record of the three facts the handlers act on      *)
(* (it exists, it is visible, it has been given focus).  Every call on the *)
(* window returns a Result in the source; its outcome is an input of the   *)
(* handler that makes the call.                                            *)
(***************************************************************************)
EXTENDS Integers, Sequences, FiniteSets, TLC

VARIABLES
    platform,      \* cfg(target_os) of the build
    pc,            \* position of main(): a setup step, "running", or an end state
    failedStep,    \* the setup step that returned Err / None, or "none"
    menu,          \* identifiers of the menu create_menu built (<<>> before it is built)
    menuAttached,  \* app.set_menu succeeded
    trayMenu,      \* identifiers of the tray menu create_tray built (<<>> before)
    titleSet,      \* window.set_title succeeded
    closeHandler,  \* window.on_window_event installed the close handler
    exists,        \* get_webview_window("main") is Some
    visible,       \* the main window is shown
    focused,       \* the main window was given input focus
    emitted,       \* events delivered to the UI client, in order
    exitCode,      \* <<>> while no exit was requested, <<code>> after app.exit(code)
    last,          \* the event dispatched last: what it was, the calls it made, the state before
    nEvents,       \* number of events dispatched so far
    mem,           \* the store "settings.json" in memory: key -> None or Some(value)
    disk,          \* the store as last persisted by save()
    lastSet,       \* per key, the invocation whose set was applied last and its value
    tasks,         \* set_store_value invocations between their steps
    fs,            \* the files read_file and write_file work on: path -> None or Some(bytes)
    resp,          \* the response returned last to the UI client
    nCmds          \* number of command invocations so far

vars == <<platform, pc, failedStep, menu, menuAttached, trayMenu, titleSet,
          closeHandler, exists, visible, focused, emitted, exitCode, last, nEvents,
          mem, disk, lastSet, tasks, fs, resp, nCmds>>

shellVars == <<platform, pc, failedStep, menu, menuAttached, trayMenu, titleSet,
               closeHandler, exists, visible, focused, emitted, exitCode, last, nEvents>>

cmdVars == <<mem, disk, lastSet, tasks, fs, resp, nCmds>>

\* Number of native events dispatched in one run of the model.
MaxEvents == 2

\* cfg(target_os = "macos") against every other target, for which linux stands.
TargetOs == {"macos", "linux"}

----------------------------------------------------------------------------
(* Menu items.  MenuItemBuilder::with_id gives an item its identifier;      *)
(* PredefinedMenuItem items carry no identifier of the application.         *)

Item(id, label) == [kind |-> "item", id |-> id, label |-> label, accel |-> "", enabled |-> TRUE]

ItemAccel(id, label, accel) == [Item(id, label) EXCEPT !.accel = accel]

ItemDisabled(id, label) == [Item(id, label) EXCEPT !.enabled = FALSE]

Predefined(name) == [kind |-> "predefined", id |-> "", label |-> name, accel |-> "", enabled |-> TRUE]

Separator == Predefined("separator")

Submenu(title, items) == [title |-> title, items |-> items]

----------------------------------------------------------------------------
(* menu.rs, #[cfg(target_os = "macos")]                                     *)

MacAppMenu ==
    Submenu("Read Master", <<
        Predefined("about"), Separator,
        Item("check_updates", "Check for Updates..."), Separator,
        ItemAccel("preferences", "Preferences...", "Cmd+,"), Separator,
        Predefined("services"), Separator,
        Predefined("hide"), Predefined("hide_others"), Predefined("show_all"), Separator,
        Predefined("quit") >>)

MacFileMenu ==
    Submenu("File", <<
        ItemAccel("import_book", "Import Book...", "Cmd+O"), Separator,
        ItemAccel("new_window", "New Window", "Cmd+Shift+N"), Separator,
        Predefined("close_window") >>)

MacEditMenu ==
    Submenu("Edit", <<
        Predefined("undo"), Predefined("redo"), Separator,
        Predefined("cut"), Predefined("copy"), Predefined("paste"), Predefined("select_all") >>)

MacViewMenuDup ==
    Submenu("View", <<
        ItemAccel("library", "Library", "Cmd+1"),
        ItemAccel("library", "Flashcards", "Cmd+2"),
        ItemAccel("social", "Social", "Cmd+3"), Separator,
        Predefined("fullscreen") >>)

MacViewMenu ==
    Submenu("View", <<
        ItemAccel("library", "Library", "Cmd+1"),
        ItemAccel("flashcards", "Flashcards", "Cmd+2"),
        ItemAccel("social", "Social", "Cmd+3"), Separator,
        Predefined("fullscreen") >>)

MacReadingMenu ==
    Submenu("Reading", <<
        ItemAccel("prev_page", "Previous Page", "Left"),
        ItemAccel("next_page", "Next Page", "Right"), Separator,
        ItemAccel("toggle_tts", "Toggle Text-to-Speech", "Cmd+T"),
        ItemAccel("add_bookmark", "Add Bookmark", "Cmd+D"),
        ItemAccel("add_note", "Add Note", "Cmd+N"), Separator,
        ItemAccel("search_book", "Search in Book...", "Cmd+F"),
        ItemAccel("table_of_contents", "Table of Contents", "Cmd+Shift+T") >>)

MacWindowMenu ==
    Submenu("Window", <<
        Predefined("minimize"), Predefined("maximize"), Separator,
        Predefined("close_window") >>)

MacHelpMenu ==
    Submenu("Help", <<
        Item("documentation", "Documentation"),
        ItemAccel("shortcuts", "Keyboard Shortcuts", "Cmd+/"), Separator,
        Item("report_issue", "Report an Issue...") >>)

MacMenu ==
    << MacAppMenu, MacFileMenu, MacEditMenu, MacViewMenu, MacReadingMenu,
       MacWindowMenu, MacHelpMenu >>

----------------------------------------------------------------------------
(* menu.rs, #[cfg(not(target_os = "macos"))]                                *)

OtherFileMenu ==
    Submenu("File", <<
        ItemAccel("import_book", "Import Book...", "Ctrl+O"), Separator,
        ItemAccel("preferences", "Preferences...", "Ctrl+,"), Separator,
        Predefined("quit") >>)

OtherEditMenu ==
    Submenu("Edit", <<
        Predefined("undo"), Predefined("redo"), Separator,
        Predefined("cut"), Predefined("copy"), Predefined("paste"), Separator,
        Predefined("select_all") >>)

OtherViewMenu ==
    Submenu("View", <<
        ItemAccel("library", "Library", "Ctrl+1"),
        ItemAccel("flashcards", "Flashcards", "Ctrl+2"),
        ItemAccel("social", "Social", "Ctrl+3"), Separator,
        Predefined("fullscreen") >>)

OtherReadingMenu ==
    Submenu("Reading", <<
        ItemAccel("prev_page", "Previous Page", "Left"),
        ItemAccel("next_page", "Next Page", "Right"), Separator,
        ItemAccel("toggle_tts", "Toggle Text-to-Speech", "Ctrl+T"),
        ItemAccel("add_bookmark", "Add Bookmark", "Ctrl+D"),
        ItemAccel("add_note", "Add Note", "Ctrl+N"), Separator,
        ItemAccel("search_book", "Search in Book...", "Ctrl+F") >>)

OtherHelpMenu ==
    Submenu("Help", <<
        Item("documentation", "Documentation"),
        ItemAccel("shortcuts", "Keyboard Shortcuts", "Ctrl+/"), Separator,
        Item("check_updates", "Check for Updates..."), Separator,
        Predefined("about") >>)

OtherMenu ==
    << OtherFileMenu, OtherEditMenu, OtherViewMenu, OtherReadingMenu, OtherHelpMenu >>

CreateMenuTree(os) == IF os = "macos" THEN MacMenu ELSE OtherMenu

----------------------------------------------------------------------------
(* tray.rs, the tray menu                                                   *)

TrayMenuItems ==
    << ItemDisabled("tray_title", "Read Master"), Separator,
       Item("tray_show", "Show Window"),
       Item("tray_hide", "Hide Window"), Separator,
       Item("tray_library", "Open Library"),
       Item("tray_continue", "Continue Reading"),
       Item("tray_flashcards", "Review Flashcards"), Separator,
       Item("tray_settings", "Settings"), Separator,
       Item("tray_quit", "Quit Read Master") >>

----------------------------------------------------------------------------
(* Identifiers of a built menu, in document order.                          *)

RECURSIVE IdsOfItems(_)
IdsOfItems(items) ==
    IF items = <<>> THEN <<>>
    ELSE (IF Head(items).kind = "item" THEN <<Head(items).id>> ELSE <<>>)
         \o IdsOfItems(Tail(items))

RECURSIVE IdsOfTree(_)
IdsOfTree(tree) ==
    IF tree = <<>> THEN <<>>
    ELSE IdsOfItems(Head(tree).items) \o IdsOfTree(Tail(tree))

SeqRange(s) == { s[i] : i \in DOMAIN s }

NoDuplicates(s) == \A i, j \in DOMAIN s : s[i] = s[j] => i = j

----------------------------------------------------------------------------
(* The calls the handlers make on the main window and on the application.   *)
(* w is the world a handler acts on: the window, the events delivered to    *)
(* the client, the position of the process and the calls made so far by     *)
(* the running handler.  ok is the Result of the call: Err leaves the       *)
(* window as it was.                                                        *)

Call(op, ok) == [op |-> op, ok |-> ok]

Show(w, ok) ==
    [w EXCEPT !.visible = IF ok THEN TRUE ELSE @,
              !.calls = Append(@, Call("show", ok))]

Hide(w, ok) ==
    [w EXCEPT !.visible = IF ok THEN FALSE ELSE @,
              !.calls = Append(@, Call("hide", ok))]

SetFocus(w, ok) ==
    [w EXCEPT !.focused = IF ok THEN TRUE ELSE @,
              !.calls = Append(@, Call("set_focus", ok))]

Emit(w, event, payload, ok) ==
    [w EXCEPT !.emitted = IF ok THEN Append(@, [event |-> event, payload |-> payload]) ELSE @,
              !.calls = Append(@, [op |-> "emit", ok |-> ok])]

\* window.is_visible(): Ok(visible) or Err
IsVisible(w, ok) == IF ok THEN <<"Ok", w.visible>> ELSE <<"Err", FALSE>>

UnwrapOr(res, default) == IF res[1] = "Ok" THEN res[2] ELSE default

QueryVisibleDefaultTrue(w, ok) == UnwrapOr(IsVisible(w, ok), TRUE)

\* window.is_visible().unwrap_or(false)
QueryVisible(w, ok) == UnwrapOr(IsVisible(w, ok), FALSE)

\* app.exit(0)
Exit(w, code) ==
    [w EXCEPT !.pc = "exited", !.exitCode = <<code>>,
              !.calls = Append(@, Call("exit", TRUE))]

\* a panic on the event loop thread ends the process
Panic(w) == [w EXCEPT !.pc = "panicked"]

\* app.get_webview_window("main") is Some
GetWebviewWindow(w) == w.exists

\* Result of every fallible call a handler may make.
Outcomes == [show : BOOLEAN, focus : BOOLEAN, hide : BOOLEAN, emit : BOOLEAN, query : BOOLEAN]

\* on_menu_event never calls is_visible, on_tray_icon_event never calls emit,
\* the close handler calls hide alone.
MenuOutcomes == { r \in Outcomes : r.query }

PointerOutcomes == { r \in Outcomes : r.emit }

CloseOutcomes == { r \in Outcomes : r.show /\ r.focus /\ r.emit /\ r.query }

\* The outcome of a call that is not made is immaterial: it is taken as Ok,
\* so that each run of a handler is counted once.
Made(calls) == { calls[i].op : i \in DOMAIN calls }

Canonical(r, calls) ==
    /\ ("show" \notin Made(calls) => r.show)
    /\ ("set_focus" \notin Made(calls) => r.focus)
    /\ ("hide" \notin Made(calls) => r.hide)
    /\ ("emit" \notin Made(calls) => r.emit)
    /\ ("is_visible" \notin Made(calls) => r.query)

----------------------------------------------------------------------------
(* tray.rs, on_menu_event: one operator per arm of the match.               *)

TrayShowArmEmits(w, r) ==
    IF GetWebviewWindow(w)
    THEN Emit(SetFocus(Show(w, r.show), r.focus), "navigate", "/library", r.emit)
    ELSE w

TrayShowArm(w, r) ==
    IF GetWebviewWindow(w) THEN SetFocus(Show(w, r.show), r.focus) ELSE w

TrayHideArmFocus(w, r) ==
    IF GetWebviewWindow(w) THEN SetFocus(Hide(w, r.hide), r.focus) ELSE w

TrayHideArm(w, r) ==
    IF GetWebviewWindow(w) THEN Hide(w, r.hide) ELSE w

TrayLibraryArmPropagate(w, r) ==
    IF GetWebviewWindow(w)
    THEN IF r.show
         THEN Emit(SetFocus(Show(w, r.show), r.focus), "navigate", "/library", r.emit)
         ELSE Show(w, r.show)
    ELSE w

TrayLibraryArm(w, r) ==
    IF GetWebviewWindow(w)
    THEN Emit(SetFocus(Show(w, r.show), r.focus), "navigate", "/library", r.emit)
    ELSE w

TrayContinueArm(w, r) ==
    IF GetWebviewWindow(w)
    THEN Emit(SetFocus(Show(w, r.show), r.focus), "navigate", "/reader/continue", r.emit)
    ELSE w

TrayFlashcardsArm(w, r) ==
    IF GetWebviewWindow(w)
    THEN Emit(SetFocus(Show(w, r.show), r.focus), "navigate", "/flashcards/review", r.emit)
    ELSE w

TraySettingsArmLibrary(w, r) ==
    IF GetWebviewWindow(w)
    THEN Emit(SetFocus(Show(w, r.show), r.focus), "navigate", "/library", r.emit)
    ELSE w

TraySettingsArm(w, r) ==
    IF GetWebviewWindow(w)
    THEN Emit(SetFocus(Show(w, r.show), r.focus), "navigate", "/settings", r.emit)
    ELSE w

TrayQuitArmHide(w, r) ==
    IF GetWebviewWindow(w) THEN Hide(w, r.hide) ELSE w

TrayQuitArm(w, r) == Exit(w, 0)

MenuDefaultArmShow(w, r) ==
    IF GetWebviewWindow(w) THEN Show(w, r.show) ELSE w

\* _ => {}
MenuDefaultArm(w, r) == w

OnMenuEvent(w, id, r) ==
    CASE id = "tray_show"       -> TrayShowArm(w, r)
      [] id = "tray_hide"       -> TrayHideArm(w, r)
      [] id = "tray_library"    -> TrayLibraryArm(w, r)
      [] id = "tray_continue"   -> TrayContinueArm(w, r)
      [] id = "tray_flashcards" -> TrayFlashcardsArm(w, r)
      [] id = "tray_settings"   -> TraySettingsArm(w, r)
      [] id = "tray_quit"       -> TrayQuitArm(w, r)
      [] OTHER                  -> MenuDefaultArm(w, r)

----------------------------------------------------------------------------
(* tray.rs, on_tray_icon_event                                              *)

\* TrayIconEvent: Click { button, button_state }, DoubleClick { button },
\* Enter, Move, Leave.  state is "" where the variant has no button state.
\* The right button stands for every button that is not the left one.
PointerEvents ==
    [type : {"Click"}, button : {"Left", "Right"}, state : {"Up", "Down"}]
    \cup [type : {"DoubleClick"}, button : {"Left", "Right"}, state : {""}]
    \cup [type : {"Enter", "Move", "Leave"}, button : {""}, state : {""}]

ClickArmInverted(w, r) ==
    IF GetWebviewWindow(w)
    THEN LET q == [w EXCEPT !.calls = Append(@, Call("is_visible", r.query))]
         IN  IF QueryVisible(w, r.query)
             THEN SetFocus(Show(q, r.show), r.focus)
             ELSE Hide(q, r.hide)
    ELSE w

\* Click { button: Left, button_state: Up, .. }
ClickArm(w, r) ==
    IF GetWebviewWindow(w)
    THEN LET q == [w EXCEPT !.calls = Append(@, Call("is_visible", r.query))]
         IN  IF QueryVisible(w, r.query)
             THEN Hide(q, r.hide)
             ELSE SetFocus(Show(q, r.show), r.focus)
    ELSE w

DoubleClickArmToggle(w, r) == ClickArm(w, r)

\* DoubleClick { .. }
DoubleClickArm(w, r) ==
    IF GetWebviewWindow(w) THEN SetFocus(Show(w, r.show), r.focus) ELSE w

IsLeftUp(ev) == ev.type = "Click" /\ ev.button = "Left" /\ ev.state = "Up"

OnTrayIconEvent(w, ev, r) ==
    CASE IsLeftUp(ev)             -> ClickArm(w, r)
      [] ev.type = "DoubleClick"  -> DoubleClickArm(w, r)
      [] OTHER                    -> w

----------------------------------------------------------------------------
(* main.rs, the handler installed by window.on_window_event.                *)
(* The result carries `prevented`: api.prevent_close() was called.          *)

\* #[cfg(target_os = "macos")] { window_clone.hide().unwrap(); api.prevent_close(); }
CloseArmMac(w, r) ==
    LET h == Hide(w, r.hide)
    IN  IF r.hide
        THEN [world |-> [h EXCEPT !.calls = Append(@, Call("prevent_close", TRUE))],
              prevented |-> TRUE]
        ELSE [world |-> Panic(h), prevented |-> FALSE]

\* the block is compiled out: the handler body is empty
CloseArmOther(w, r) == [world |-> w, prevented |-> FALSE]

OnCloseRequested(os, w, r) ==
    IF os = "macos" THEN CloseArmMac(w, r) ELSE CloseArmOther(w, r)

\* The default close action of the runtime, taken when it was not prevented
\* and the handler returned: the window is destroyed.
DefaultClose(w) == [w EXCEPT !.exists = FALSE, !.visible = FALSE, !.focused = FALSE]

----------------------------------------------------------------------------
(* The commands of commands.rs: values, results and the providers they     *)
(* call.                                                                    *)

MaxCommands == 2

\* Option<T>: None is the empty tuple, Some(x) the one-element tuple.
None == <<>>

Some(x) == <<x>>

\* Result<T, String>: Ok carries the value, Err the formatted message, kept
\* as the pair of the format string's prefix and the cause it interpolates.
Ok(x) == [ok |-> TRUE, value |-> x]

Err(prefix, cause) == [ok |-> FALSE, value |-> <<prefix, cause>>]

\* The unit value ().
Unit == <<>>

Keys == {"theme", "fontSize"}

\* serde_json::Value samples; "null" is the JSON null, a value like any other.
JsonValues == {"null", "dark"}

Paths == {"/books/a.epub"}

Contents == {"", "EPUB"}

Titles == {None, Some("Open Book")}

FileNames == {None, Some("notes.txt")}

MultipleArgs == {None, Some(TRUE), Some(FALSE)}

\* What a provider reports: "ok" or the cause of its failure.
OpenOutcomes == {"ok", "store unreadable"}

SaveOutcomes == {"ok", "disk full"}

IoOutcomes == {"ok", "permission denied"}

NotifyOutcomes == {"ok", "notifications disabled"}

UpdaterOutcomes == {"ok", "updater not configured"}

CheckOutcomes == {"update", "none", "network unreachable"}

\* What the user does with a dialog: dismisses it or picks these files.
UserChoices ==
    { [canceled |-> TRUE, paths |-> <<>>],
      [canceled |-> FALSE, paths |-> <<[path |-> "/books/a.epub"]>>],
      [canceled |-> FALSE, paths |-> <<[path |-> "/books/a.epub"], [path |-> "/books/b.pdf"]>>] }

\* FilePath::to_string()
PathToString(p) == p.path

\* app.dialog().file()
FileDialog == [title |-> None, fileName |-> None, filters |-> <<>>]

DialogSetTitle(dialog, t) == [dialog EXCEPT !.title = Some(t)]

SetFileName(dialog, name) == [dialog EXCEPT !.fileName = Some(name)]

AddFilter(dialog, name, extensions) ==
    [dialog EXCEPT !.filters = Append(@, [name |-> name, extensions |-> extensions])]

\* The blocking pickers: None when the user dismissed the dialog.
PickFiles(dialog, choice) == IF choice.canceled THEN None ELSE Some(choice.paths)

PickFile(dialog, choice) == IF choice.canceled THEN None ELSE Some(choice.paths[1])

SaveFile(dialog, choice) == IF choice.canceled THEN None ELSE Some(choice.paths[1])

MapToString(paths) == [i \in DOMAIN paths |-> PathToString(paths[i])]

\* if let Some(t) = title { dialog = dialog.set_title(&t); }
WithTitle(dialog, title) == IF title = None THEN dialog ELSE DialogSetTitle(dialog, title[1])

\* if let Some(name) = default_name { dialog = dialog.set_file_name(&name); }
WithFileName(dialog, name) == IF name = None THEN dialog ELSE SetFileName(dialog, name[1])

\* The four add_filter calls of open_file_dialog.
BookFilters(dialog) ==
    AddFilter(AddFilter(AddFilter(AddFilter(dialog,
        "Books", <<"epub", "pdf">>),
        "EPUB", <<"epub">>),
        "PDF", <<"pdf">>),
        "All Files", <<"*">>)

\* The dialog open_file_dialog builds before it blocks on the user.
OpenFileDialogBuilder(title) == BookFilters(WithTitle(FileDialog, title))

\* The dialog save_file_dialog builds before it blocks on the user.
SaveFileDialogBuilder(title, default_name) ==
    WithFileName(WithTitle(FileDialog, title), default_name)

\* multiple.unwrap_or(false)
MultipleOrFalse(multiple) == IF multiple = None THEN FALSE ELSE multiple[1]

OpenFileDialogCancelFails(title, multiple, choice) ==
    IF choice.canceled THEN Err("Dialog canceled", "")
    ELSE Ok([canceled |-> FALSE, paths |-> MapToString(choice.paths)])

OpenFileDialog(title, multiple, choice) ==
    LET dialog == OpenFileDialogBuilder(title) IN
    IF MultipleOrFalse(multiple)
    THEN LET picked == PickFiles(dialog, choice) IN
         IF picked # None
         THEN Ok([canceled |-> FALSE, paths |-> MapToString(picked[1])])
         ELSE Ok([canceled |-> TRUE, paths |-> <<>>])
    ELSE LET picked == PickFile(dialog, choice) IN
         IF picked # None
         THEN Ok([canceled |-> FALSE, paths |-> <<PathToString(picked[1])>>])
         ELSE Ok([canceled |-> TRUE, paths |-> <<>>])

SaveFileDialog(title, default_name, choice) ==
    LET dialog == SaveFileDialogBuilder(title, default_name)
        picked == SaveFile(dialog, choice) IN
    IF picked # None
    THEN Ok([canceled |-> FALSE, path |-> Some(PathToString(picked[1]))])
    ELSE Ok([canceled |-> TRUE, path |-> None])

\* std::fs::read(&path): the bytes, or the cause of the failure.
FsRead(files, path, io) ==
    IF files[path] = None THEN [ok |-> FALSE, cause |-> "no such file"]
    ELSE IF io # "ok" THEN [ok |-> FALSE, cause |-> io]
    ELSE [ok |-> TRUE, bytes |-> files[path][1]]

ReadFileSwallow(files, path, io) ==
    LET r == FsRead(files, path, io) IN
    IF r.ok THEN Ok(r.bytes) ELSE Ok("")

\* std::fs::read(&path).map_err(|e| format!("Failed to read file: {}", e))
ReadFile(files, path, io) ==
    LET r == FsRead(files, path, io) IN
    IF r.ok THEN Ok(r.bytes) ELSE Err("Failed to read file: ", r.cause)

\* std::fs::write(&path, contents).map_err(|e| format!("Failed to write file: {}", e))
WriteFile(files, path, contents, io) ==
    IF io = "ok"
    THEN [files |-> [files EXCEPT ![path] = Some(contents)], result |-> Ok(Unit)]
    ELSE [files |-> files, result |-> Err("Failed to write file: ", io)]

\* notification.show().map_err(|e| format!("Failed to show notification: {}", e))
ShowNotification(title, body, shown) ==
    IF shown = "ok" THEN Ok(Unit) ELSE Err("Failed to show notification: ", shown)

\* match app.updater() { Ok(updater) => match updater.check().await { ... } ... }
CheckForUpdates(updater, check) ==
    IF updater # "ok" THEN Err("Updater not available: ", updater)
    ELSE IF check = "update" THEN Ok(TRUE)
    ELSE IF check = "none" THEN Ok(FALSE)
    ELSE Err("Failed to check for updates: ", check)

StoreGetNullAbsent(store, key) == IF store[key] = Some("null") THEN None ELSE store[key]

\* store.get(&key): the value kept under the key, None when there is none.
StoreGet(store, key) == store[key]

StoreSetDeferred(store, key, value) == store

\* store.set(&key, value): only the in-memory map changes.
StoreSet(store, key, value) == [store EXCEPT ![key] = Some(value)]

StoreSaveOwn(persisted, store, key, value, save) ==
    IF save = "ok" THEN [persisted EXCEPT ![key] = Some(value)] ELSE persisted

\* store.save(): writes the whole in-memory map out, or fails and writes
\* nothing.  key and value are those of the invocation that saves.
StoreSave(persisted, store, key, value, save) ==
    IF save = "ok" THEN store ELSE persisted

\* get_store_value: open the store or return the error, then read the key.
GetStoreValue(store, key, open) ==
    IF open # "ok" THEN Err("Failed to open store: ", open)
    ELSE Ok(StoreGet(store, key))

EmptyStore == [k \in Keys |-> None]

NoFiles == [p \in Paths |-> None]

NoLastSet == [k \in Keys |-> [by |-> 0, value |-> None]]

NoResponse ==
    [cmd |-> "none", id |-> 0, args |-> <<>>, step |-> "none", cause |-> "ok",
     result |-> Ok(Unit), dialog |-> FileDialog, prevFailed |-> FALSE]

\* No command has been invoked: the store is as it was loaded.
CmdIdle ==
    /\ mem = EmptyStore
    /\ disk = EmptyStore
    /\ lastSet = NoLastSet
    /\ tasks = <<>>
    /\ fs = NoFiles
    /\ resp = NoResponse
    /\ nCmds = 0

----------------------------------------------------------------------------
(* The state machine.                                                       *)

NoEvent == [kind |-> "none", id |-> "", ev |-> [type |-> "", button |-> "", state |-> ""],
            calls |-> <<>>, prevented |-> FALSE,
            before |-> [exists |-> FALSE, visible |-> FALSE, focused |-> FALSE,
                        emitted |-> <<>>, pc |-> "",
                        prior |-> [tag |-> "none", ok |-> TRUE, visible |-> FALSE]]]

\* The world the next handler acts on; its call log starts empty.
World ==
    [exists |-> exists, visible |-> visible, focused |-> focused, emitted |-> emitted,
     pc |-> pc, exitCode |-> exitCode, calls |-> <<>>]

\* What the event before this one was: whether it ran the single-click arm,
\* the double-click arm or something else, whether all its calls returned Ok
\* and whether it found the window visible.
Prior ==
    [tag |-> IF last.kind = "pointer" /\ IsLeftUp(last.ev) THEN "click"
             ELSE IF last.kind = "pointer" /\ last.ev.type = "DoubleClick" THEN "double"
             ELSE IF last.kind = "none" THEN "none" ELSE "other",
     ok |-> \A i \in DOMAIN last.calls : last.calls[i].ok,
     visible |-> last.before.visible]

Snapshot ==
    [exists |-> exists, visible |-> visible, focused |-> focused, emitted |-> emitted,
     pc |-> pc, prior |-> Prior]

\* The handler returned leaving world w.
Commit(w) ==
    /\ exists' = w.exists
    /\ visible' = w.visible
    /\ focused' = w.focused
    /\ emitted' = w.emitted
    /\ pc' = w.pc
    /\ exitCode' = w.exitCode

\* The main window comes from the application's configuration and is built
\* by the runtime before setup runs; it may be absent, hidden or shown.
Init ==
    /\ platform \in TargetOs
    /\ pc = "create_menu"
    /\ failedStep = "none"
    /\ menu = <<>>
    /\ menuAttached = FALSE
    /\ trayMenu = <<>>
    /\ titleSet = FALSE
    /\ closeHandler = FALSE
    /\ exists \in BOOLEAN
    /\ visible \in BOOLEAN
    /\ focused \in BOOLEAN
    /\ (focused => visible)
    /\ (visible => exists)
    /\ emitted = <<>>
    /\ exitCode = <<>>
    /\ last = NoEvent
    /\ nEvents = 0
    /\ CmdIdle

AbortSetupIgnored(step) ==
    /\ pc' = "setup_complete"
    /\ failedStep' = step

\* A setup step returned Err: `?` leaves setup, run() returns Err and
\* .expect("error while running tauri application") panics.
AbortSetup(step) ==
    /\ pc' = "aborted"
    /\ failedStep' = step

CreateMenuSkipsAttach ==
    /\ UNCHANGED cmdVars
    /\ pc = "create_menu"
    /\ \E ok \in BOOLEAN :
         IF ok
         THEN /\ menu' = IdsOfTree(CreateMenuTree(platform))
              /\ pc' = "create_tray"
              /\ UNCHANGED failedStep
         ELSE /\ AbortSetup("create_menu")
              /\ UNCHANGED menu
    /\ UNCHANGED <<platform, menuAttached, trayMenu, titleSet, closeHandler, exists,
                   visible, focused, emitted, exitCode, last, nEvents>>

\* let menu = menu::create_menu(app.handle())?;
CreateMenu ==
    /\ UNCHANGED cmdVars
    /\ pc = "create_menu"
    /\ \E ok \in BOOLEAN :
         IF ok
         THEN /\ menu' = IdsOfTree(CreateMenuTree(platform))
              /\ pc' = "set_menu"
              /\ UNCHANGED failedStep
         ELSE /\ AbortSetup("create_menu")
              /\ UNCHANGED menu
    /\ UNCHANGED <<platform, menuAttached, trayMenu, titleSet, closeHandler, exists,
                   visible, focused, emitted, exitCode, last, nEvents>>

\* app.set_menu(menu)?;
SetMenu ==
    /\ UNCHANGED cmdVars
    /\ pc = "set_menu"
    /\ \E ok \in BOOLEAN :
         IF ok
         THEN /\ menuAttached' = TRUE
              /\ pc' = "create_tray"
              /\ UNCHANGED failedStep
         ELSE /\ AbortSetup("set_menu")
              /\ UNCHANGED menuAttached
    /\ UNCHANGED <<platform, menu, trayMenu, titleSet, closeHandler, exists,
                   visible, focused, emitted, exitCode, last, nEvents>>

\* let tray = tray::create_tray(app.handle())?;
CreateTray ==
    /\ UNCHANGED cmdVars
    /\ pc = "create_tray"
    /\ \E ok \in BOOLEAN :
         IF ok
         THEN /\ trayMenu' = IdsOfItems(TrayMenuItems)
              /\ pc' = "get_window"
              /\ UNCHANGED failedStep
         ELSE /\ AbortSetup("create_tray")
              /\ UNCHANGED trayMenu
    /\ UNCHANGED <<platform, menu, menuAttached, titleSet, closeHandler, exists,
                   visible, focused, emitted, exitCode, last, nEvents>>

\* if let Some(window) = app.get_webview_window("main") { ... }
\* None skips the block: setup goes on to "Application setup complete".
GetMainWindow ==
    /\ UNCHANGED cmdVars
    /\ pc = "get_window"
    /\ IF GetWebviewWindow(World)
       THEN /\ pc' = "set_title"
            /\ UNCHANGED failedStep
       ELSE /\ pc' = "setup_complete"
            /\ failedStep' = "get_window"
    /\ UNCHANGED <<platform, menu, menuAttached, trayMenu, titleSet, closeHandler, exists,
                   visible, focused, emitted, exitCode, last, nEvents>>

\* window.set_title("Read Master")?;
SetTitle ==
    /\ UNCHANGED cmdVars
    /\ pc = "set_title"
    /\ \E ok \in BOOLEAN :
         IF ok
         THEN /\ titleSet' = TRUE
              /\ pc' = "on_window_event"
              /\ UNCHANGED failedStep
         ELSE /\ AbortSetup("set_title")
              /\ UNCHANGED titleSet
    /\ UNCHANGED <<platform, menu, menuAttached, trayMenu, closeHandler, exists,
                   visible, focused, emitted, exitCode, last, nEvents>>

\* window.on_window_event(move |event| { ... });
InstallCloseHandler ==
    /\ UNCHANGED cmdVars
    /\ pc = "on_window_event"
    /\ closeHandler' = TRUE
    /\ pc' = "setup_complete"
    /\ UNCHANGED <<platform, failedStep, menu, menuAttached, trayMenu, titleSet, exists,
                   visible, focused, emitted, exitCode, last, nEvents>>

\* info!("Application setup complete"); Ok(())  -- run() enters the event loop
SetupComplete ==
    /\ UNCHANGED cmdVars
    /\ pc = "setup_complete"
    /\ pc' = "running"
    /\ UNCHANGED <<platform, failedStep, menu, menuAttached, trayMenu, titleSet, closeHandler,
                   exists, visible, focused, emitted, exitCode, last, nEvents>>

\* Identifiers a menu event can carry: the tray's on_menu_event sees the
\* activations of the tray items and of the menu bar items, and the default
\* arm takes every other string.  Of the menu bar the events carry library
\* (the identifier nearest to one of the tray's) and preferences.
MenuBarSample == SeqRange(menu) \cap {"library", "preferences"}

MenuEventIds == SeqRange(trayMenu) \cup MenuBarSample \cup {"unknown_item"}

\* The event loop dispatches a menu event to the tray's on_menu_event.
MenuEvent ==
    /\ UNCHANGED cmdVars
    /\ pc = "running"
    /\ nEvents < MaxEvents
    /\ \E id \in MenuEventIds, r \in MenuOutcomes :
         LET w == OnMenuEvent(World, id, r)
         IN  /\ Canonical(r, w.calls)
             /\ Commit(w)
             /\ last' = [NoEvent EXCEPT !.kind = "menu", !.id = id, !.calls = w.calls,
                                        !.before = Snapshot]
    /\ nEvents' = nEvents + 1
    /\ UNCHANGED <<platform, failedStep, menu, menuAttached, trayMenu, titleSet, closeHandler>>

\* The event loop dispatches a pointer event on the tray icon.
TrayIconEvent ==
    /\ UNCHANGED cmdVars
    /\ pc = "running"
    /\ nEvents < MaxEvents
    /\ \E ev \in PointerEvents, r \in PointerOutcomes :
         LET w == OnTrayIconEvent(World, ev, r)
         IN  /\ Canonical(r, w.calls)
             /\ Commit(w)
             /\ last' = [NoEvent EXCEPT !.kind = "pointer", !.ev = ev, !.calls = w.calls,
                                        !.before = Snapshot]
    /\ nEvents' = nEvents + 1
    /\ UNCHANGED <<platform, failedStep, menu, menuAttached, trayMenu, titleSet, closeHandler>>

\* WindowEvent::CloseRequested on the main window.  When the handler returns
\* without prevent_close the runtime closes the window; with its last window
\* gone the runtime may go on running (the tray is still there) or leave the
\* event loop.
CloseRequested ==
    /\ UNCHANGED cmdVars
    /\ pc = "running"
    /\ nEvents < MaxEvents
    /\ exists
    /\ closeHandler
    /\ \E r \in CloseOutcomes, stays \in BOOLEAN :
         LET res == OnCloseRequested(platform, World, r)
             w == IF res.prevented \/ res.world.pc = "panicked"
                  THEN res.world
                  ELSE IF stays THEN DefaultClose(res.world)
                                ELSE [DefaultClose(res.world) EXCEPT !.pc = "exited",
                                                                    !.exitCode = <<0>>]
         IN  /\ Canonical(r, res.world.calls)
             /\ Commit(w)
             /\ last' = [NoEvent EXCEPT !.kind = "close", !.calls = w.calls,
                                        !.prevented = res.prevented, !.before = Snapshot]
    /\ nEvents' = nEvents + 1
    /\ UNCHANGED <<platform, failedStep, menu, menuAttached, trayMenu, titleSet, closeHandler>>

Next ==
    \/ CreateMenu
    \/ SetMenu
    \/ CreateTray
    \/ GetMainWindow
    \/ SetTitle
    \/ InstallCloseHandler
    \/ SetupComplete
    \/ MenuEvent
    \/ TrayIconEvent
    \/ CloseRequested

Spec == Init /\ [][Next]_vars

----------------------------------------------------------------------------
(* The commands as the running application serves them.  Every invocation  *)
(* runs on the async runtime; set_store_value takes its two store calls as *)
(* separate steps, so invocations interleave between set and save.          *)

\* Whether the response before this one was an error.
PrevFailed == ~resp.result.ok

\* The command returns result to the UI client.
Respond(cmd, id, args, step, cause, result, dialog) ==
    resp' = [cmd |-> cmd, id |-> id, args |-> args, step |-> step, cause |-> cause,
             result |-> result, dialog |-> dialog, prevFailed |-> PrevFailed]

\* The invoke handler accepts a command while the event loop runs.
Accepts == pc = "running" /\ nCmds < MaxCommands

InvokeOpenFileDialog ==
    /\ Accepts
    /\ \E title \in Titles, multiple \in MultipleArgs, choice \in UserChoices :
         Respond("open_file_dialog", nCmds + 1, <<title, multiple>>, "return",
                 IF choice.canceled THEN "canceled" ELSE "ok",
                 OpenFileDialog(title, multiple, choice), OpenFileDialogBuilder(title))
    /\ nCmds' = nCmds + 1
    /\ UNCHANGED <<mem, disk, lastSet, tasks, fs>>
    /\ UNCHANGED shellVars

InvokeSaveFileDialog ==
    /\ Accepts
    /\ \E title \in Titles, default_name \in FileNames, choice \in UserChoices :
         Respond("save_file_dialog", nCmds + 1, <<title, default_name>>, "return",
                 IF choice.canceled THEN "canceled" ELSE "ok",
                 SaveFileDialog(title, default_name, choice),
                 SaveFileDialogBuilder(title, default_name))
    /\ nCmds' = nCmds + 1
    /\ UNCHANGED <<mem, disk, lastSet, tasks, fs>>
    /\ UNCHANGED shellVars

InvokeReadFile ==
    /\ Accepts
    /\ \E path \in Paths, io \in IoOutcomes :
         Respond("read_file", nCmds + 1, <<path>>, "return",
                 IF FsRead(fs, path, io).ok THEN "ok" ELSE FsRead(fs, path, io).cause,
                 ReadFile(fs, path, io), FileDialog)
    /\ nCmds' = nCmds + 1
    /\ UNCHANGED <<mem, disk, lastSet, tasks, fs>>
    /\ UNCHANGED shellVars

InvokeWriteFile ==
    /\ Accepts
    /\ \E path \in Paths, contents \in Contents, io \in IoOutcomes :
         /\ fs' = WriteFile(fs, path, contents, io).files
         /\ Respond("write_file", nCmds + 1, <<path, contents>>, "return", io,
                    WriteFile(fs, path, contents, io).result, FileDialog)
    /\ nCmds' = nCmds + 1
    /\ UNCHANGED <<mem, disk, lastSet, tasks>>
    /\ UNCHANGED shellVars

InvokeShowNotification ==
    /\ Accepts
    /\ \E title \in {"Read Master"}, body \in {None, Some("Time to review")},
          shown \in NotifyOutcomes :
         Respond("show_notification", nCmds + 1, <<title, body>>, "return", shown,
                 ShowNotification(title, body, shown), FileDialog)
    /\ nCmds' = nCmds + 1
    /\ UNCHANGED <<mem, disk, lastSet, tasks, fs>>
    /\ UNCHANGED shellVars

InvokeGetStoreValue ==
    /\ Accepts
    /\ \E key \in Keys, open \in OpenOutcomes :
         Respond("get_store_value", nCmds + 1, <<key>>, "return", open,
                 GetStoreValue(mem, key, open), FileDialog)
    /\ nCmds' = nCmds + 1
    /\ UNCHANGED <<mem, disk, lastSet, tasks, fs>>
    /\ UNCHANGED shellVars

\* set_store_value up to `?` on app.store("settings.json"): the error is
\* returned before the store was touched, otherwise the invocation goes on.
InvokeSetStoreValue ==
    /\ Accepts
    /\ \E key \in Keys, value \in JsonValues, open \in OpenOutcomes :
         IF open = "ok"
         THEN /\ tasks' = Append(tasks, [id |-> nCmds + 1, key |-> key, value |-> value,
                                         pc |-> "set", old |-> None])
              /\ UNCHANGED resp
         ELSE /\ Respond("set_store_value", nCmds + 1, <<key, value>>, "open", open,
                         Err("Failed to open store: ", open), FileDialog)
              /\ UNCHANGED tasks
    /\ nCmds' = nCmds + 1
    /\ UNCHANGED <<mem, disk, lastSet, fs>>
    /\ UNCHANGED shellVars

\* store.set(&key, value);
SetStep ==
    /\ pc = "running"
    /\ \E i \in DOMAIN tasks :
         /\ tasks[i].pc = "set"
         /\ mem' = StoreSet(mem, tasks[i].key, tasks[i].value)
         /\ lastSet' = [lastSet EXCEPT ![tasks[i].key] =
                            [by |-> tasks[i].id, value |-> Some(tasks[i].value)]]
         /\ tasks' = [tasks EXCEPT ![i].pc = "save", ![i].old = mem[tasks[i].key]]
    /\ UNCHANGED <<disk, fs, resp, nCmds>>
    /\ UNCHANGED shellVars

\* The sequence without its i-th element.
Without(s, i) == [j \in 1..(Len(s) - 1) |-> IF j < i THEN s[j] ELSE s[j + 1]]

\* store.save().map_err(|e| format!("Failed to save store: {}", e))
SaveStep ==
    /\ pc = "running"
    /\ \E i \in DOMAIN tasks, save \in SaveOutcomes :
         /\ tasks[i].pc = "save"
         /\ disk' = StoreSave(disk, mem, tasks[i].key, tasks[i].value, save)
         /\ Respond("set_store_value", tasks[i].id,
                    <<tasks[i].key, tasks[i].value, tasks[i].old>>, "save", save,
                    IF save = "ok" THEN Ok(Unit) ELSE Err("Failed to save store: ", save),
                    FileDialog)
         /\ tasks' = Without(tasks, i)
    /\ UNCHANGED <<mem, lastSet, fs, nCmds>>
    /\ UNCHANGED shellVars

InvokeCheckForUpdates ==
    /\ Accepts
    /\ \E updater \in UpdaterOutcomes, check \in CheckOutcomes :
         /\ (updater # "ok" => check = "none")
         /\ Respond("check_for_updates", nCmds + 1, <<>>, "return",
                    IF updater # "ok" THEN updater
                    ELSE IF check = "network unreachable" THEN check ELSE "ok",
                    CheckForUpdates(updater, check), FileDialog)
    /\ nCmds' = nCmds + 1
    /\ UNCHANGED <<mem, disk, lastSet, tasks, fs>>
    /\ UNCHANGED shellVars

\* Setup has completed with the main window present and the event loop runs;
\* the store is as loaded and the file may or may not be there.
InitCmd ==
    /\ platform \in TargetOs
    /\ pc = "running"
    /\ failedStep = "none"
    /\ menu = IdsOfTree(CreateMenuTree(platform))
    /\ menuAttached = TRUE
    /\ trayMenu = IdsOfItems(TrayMenuItems)
    /\ titleSet = TRUE
    /\ closeHandler = TRUE
    /\ exists = TRUE
    /\ visible = TRUE
    /\ focused = TRUE
    /\ emitted = <<>>
    /\ exitCode = <<>>
    /\ last = NoEvent
    /\ nEvents = 0
    /\ mem = EmptyStore
    /\ disk = EmptyStore
    /\ lastSet = NoLastSet
    /\ tasks = <<>>
    /\ fs \in [Paths -> {None, Some("EPUB")}]
    /\ resp = NoResponse
    /\ nCmds = 0

NextCmd ==
    \/ InvokeOpenFileDialog
    \/ InvokeSaveFileDialog
    \/ InvokeReadFile
    \/ InvokeWriteFile
    \/ InvokeShowNotification
    \/ InvokeGetStoreValue
    \/ InvokeSetStoreValue
    \/ SetStep
    \/ SaveStep
    \/ InvokeCheckForUpdates

SpecCmd == InitCmd /\ [][NextCmd]_vars

----------------------------------------------------------------------------
(* Reading the record of the last dispatched event.                         *)

OpsOf(calls) == [i \in DOMAIN calls |-> calls[i].op]

AllCallsOk == \A i \in DOMAIN last.calls : last.calls[i].ok

\* The call op was made by the last handler and returned Ok / Err.
CallOk(op) == \E i \in DOMAIN last.calls : last.calls[i].op = op /\ last.calls[i].ok

CallErr(op) == \E i \in DOMAIN last.calls : last.calls[i].op = op /\ ~last.calls[i].ok

AfterMenu(id) == last.kind = "menu" /\ last.id = id

AfterPointer == last.kind = "pointer"

WindowAsBefore ==
    /\ exists = last.before.exists
    /\ visible = last.before.visible
    /\ focused = last.before.focused

ProcessAsBefore == pc = last.before.pc /\ exitCode = <<>>

Navigate(path) == [event |-> "navigate", payload |-> path]

\* The path each navigating tray item is documented to carry.
PathOf(id) ==
    CASE id = "tray_library"    -> "/library"
      [] id = "tray_continue"   -> "/reader/continue"
      [] id = "tray_flashcards" -> "/flashcards/review"
      [] id = "tray_settings"   -> "/settings"

NavigatingIds == {"tray_library", "tray_continue", "tray_flashcards", "tray_settings"}

----------------------------------------------------------------------------
\* C1: a tray menu activation tray_show, tray_library, tray_continue,
\* tray_flashcards or tray_settings that finds the main window calls show and
\* then set_focus on it, so the window is visible and focused afterwards
\* (each call that returns Err is ignored and leaves its attribute as it was);
\* the four navigating items then emit one navigate event carrying their
\* path, and tray_show emits none.
C1_ShowFocusNavigate ==
    \A id \in NavigatingIds \cup {"tray_show"} :
        (AfterMenu(id) /\ last.before.exists) =>
            /\ OpsOf(last.calls) = IF id = "tray_show" THEN <<"show", "set_focus">>
                                   ELSE <<"show", "set_focus", "emit">>
            /\ visible = (last.calls[1].ok \/ last.before.visible)
            /\ focused = (last.calls[2].ok \/ last.before.focused)
            /\ (AllCallsOk => visible /\ focused)
            /\ emitted = IF id \in NavigatingIds /\ last.calls[3].ok
                         THEN Append(last.before.emitted, Navigate(PathOf(id)))
                         ELSE last.before.emitted
            /\ exists /\ ProcessAsBefore

C1_Witness ==
    /\ AfterMenu("tray_settings")
    /\ last.before.exists /\ ~last.before.visible /\ ~last.before.focused
    /\ AllCallsOk
    /\ visible /\ focused
    /\ emitted = Append(last.before.emitted, Navigate("/settings"))

\* C2: a tray_hide activation hides the main window (one hide call and no
\* other; the window is hidden unless the call returns Err), emits no
\* navigation event, leaves focus as it was and leaves the process running.
C2_HideOnly ==
    AfterMenu("tray_hide") =>
        /\ OpsOf(last.calls) = IF last.before.exists THEN <<"hide">> ELSE <<>>
        /\ (CallOk("hide") => ~visible)
        /\ (~CallOk("hide") => visible = last.before.visible)
        /\ emitted = last.before.emitted
        /\ focused = last.before.focused
        /\ exists = last.before.exists
        /\ pc = "running" /\ exitCode = <<>>

C2_Witness ==
    /\ AfterMenu("tray_hide")
    /\ last.before.visible /\ last.before.focused
    /\ CallOk("hide")
    /\ ~visible /\ focused /\ pc = "running"

\* C3: a tray_quit activation exits the process with code 0 without touching
\* the window or emitting, and no event is dispatched after an exit: every
\* dispatched event found the process running, and an exited process takes
\* no further step.
C3_QuitExitsAndStops ==
    /\ AfterMenu("tray_quit") =>
          /\ pc = "exited" /\ exitCode = <<0>>
          /\ WindowAsBefore
          /\ emitted = last.before.emitted
    /\ last.kind # "none" => last.before.pc = "running"
    /\ pc = "exited" => ~ENABLED Next

C3_Witness ==
    /\ AfterMenu("tray_quit")
    /\ pc = "exited" /\ exitCode = <<0>>
    /\ nEvents < MaxEvents
    /\ last.before.exists

\* C7: inputs outside the actionable sets are no-ops.  A menu event whose
\* identifier is tray_title, an identifier of the menu bar or any other
\* unrecognized string, and a pointer event that is neither a left-button
\* release nor a double-click, make no call and leave the window, the
\* emitted events and the process as they were.
ActionableIds == NavigatingIds \cup {"tray_show", "tray_hide", "tray_quit"}

C7_Inert ==
    \/ /\ last.kind = "menu"
       /\ last.id \notin ActionableIds
    \/ /\ last.kind = "pointer"
       /\ ~(last.ev.type = "Click" /\ last.ev.button = "Left" /\ last.ev.state = "Up")
       /\ last.ev.type # "DoubleClick"

C7_NoOp ==
    C7_Inert =>
        /\ last.calls = <<>>
        /\ WindowAsBefore
        /\ emitted = last.before.emitted
        /\ pc = "running" /\ exitCode = <<>>

C7_Witness ==
    /\ AfterMenu("library")
    /\ last.before.exists /\ ~last.before.visible
    /\ ~visible /\ emitted = <<>> /\ pc = "running"
    /\ nEvents = 2

----------------------------------------------------------------------------
AfterClick == last.kind = "pointer" /\ IsLeftUp(last.ev)

AfterDoubleClick == last.kind = "pointer" /\ last.ev.type = "DoubleClick"

\* C4: each single left-click release flips the visibility of the main
\* window: it hides a visible window, and shows and focuses a hidden one
\* (the query and the calls returning Ok).  Starting visible, one click
\* leaves the window hidden and the click right after it leaves it visible
\* and focused.
C4_ClickToggles ==
    /\ (AfterClick /\ last.before.exists /\ AllCallsOk) =>
          /\ OpsOf(last.calls) = IF last.before.visible THEN <<"is_visible", "hide">>
                                 ELSE <<"is_visible", "show", "set_focus">>
          /\ visible = ~last.before.visible
          /\ (visible => focused)
          /\ (~visible => focused = last.before.focused)
          /\ emitted = last.before.emitted
          /\ exists /\ ProcessAsBefore
    /\ (/\ AfterClick /\ AllCallsOk
        /\ last.before.prior.tag = "click" /\ last.before.prior.ok
        /\ last.before.prior.visible) =>
          /\ ~last.before.visible
          /\ visible /\ focused

C4_Witness ==
    /\ AfterClick /\ AllCallsOk
    /\ last.before.prior.tag = "click" /\ last.before.prior.ok
    /\ last.before.prior.visible
    /\ ~last.before.visible
    /\ visible /\ focused

\* C5: when is_visible returns Err during a single left-click release, the
\* window is treated as hidden: the handler calls show and set_focus and
\* never hide, whatever the window's actual visibility, so a visible window
\* stays visible.
C5_QueryFailureShows ==
    (AfterClick /\ last.before.exists /\ CallErr("is_visible")) =>
        /\ OpsOf(last.calls) = <<"is_visible", "show", "set_focus">>
        /\ visible = (last.calls[2].ok \/ last.before.visible)
        /\ focused = (last.calls[3].ok \/ last.before.focused)
        /\ (last.before.visible => visible)
        /\ (last.calls[2].ok /\ last.calls[3].ok => visible /\ focused)
        /\ emitted = last.before.emitted
        /\ exists /\ ProcessAsBefore

C5_Witness ==
    /\ AfterClick /\ CallErr("is_visible")
    /\ last.before.visible /\ ~last.before.focused
    /\ CallOk("show") /\ CallOk("set_focus")
    /\ visible /\ focused

\* C6: a tray double-click shows and focuses the main window whatever its
\* visibility was (the calls returning Ok) and emits nothing; on a window
\* that is already visible and focused, and when it follows another
\* double-click, it changes nothing.
C6_DoubleClickShows ==
    /\ (AfterDoubleClick /\ last.before.exists) =>
          /\ OpsOf(last.calls) = <<"show", "set_focus">>
          /\ visible = (last.calls[1].ok \/ last.before.visible)
          /\ focused = (last.calls[2].ok \/ last.before.focused)
          /\ (AllCallsOk => visible /\ focused)
          /\ (last.before.visible /\ last.before.focused => WindowAsBefore)
          /\ emitted = last.before.emitted
          /\ exists /\ ProcessAsBefore
    /\ (/\ AfterDoubleClick /\ AllCallsOk
        /\ last.before.prior.tag = "double" /\ last.before.prior.ok) =>
          /\ WindowAsBefore
          /\ emitted = last.before.emitted
          /\ ProcessAsBefore

C6_Witness ==
    /\ AfterDoubleClick /\ AllCallsOk
    /\ last.before.prior.tag = "double" /\ last.before.prior.ok
    /\ ~last.before.prior.visible
    /\ last.before.visible /\ last.before.focused
    /\ visible /\ focused

\* C8: on macOS every close request on the main window is intercepted: the
\* handler calls hide and prevent_close and the window and the process stay
\* alive, whether hide returns Ok or Err; on every other platform the
\* handler neither prevents the close nor hides the window.
C8_CloseIntercepted ==
    last.kind = "close" =>
        IF platform = "macos"
        THEN /\ last.prevented
             /\ "hide" \in {last.calls[i].op : i \in DOMAIN last.calls}
             /\ (CallOk("hide") => ~visible)
             /\ exists
             /\ pc = "running"
        ELSE /\ ~last.prevented
             /\ last.calls = <<>>

FatalSteps == {"create_menu", "set_menu", "create_tray", "set_title"}

C10_IdentifiersDistinct ==
    /\ NoDuplicates(menu)
    /\ NoDuplicates(trayMenu)
    /\ SeqRange(menu) \cap SeqRange(trayMenu) = {}
    /\ pc \notin {"create_menu", "aborted"} => Len(menu) >= 14
    /\ pc \in {"running", "exited", "panicked"} => Len(trayMenu) = 8

C10_Witness ==
    /\ platform = "macos"
    /\ pc = "running"
    /\ Len(menu) = 17
    /\ Len(trayMenu) = 8
    /\ "library" \in SeqRange(menu) /\ "tray_library" \in SeqRange(trayMenu)

----------------------------------------------------------------------------
\* The submenu of a tree that carries the title.
SubmenuOf(tree, title) == CHOOSE m \in SeqRange(tree) : m.title = title

\* Identifier and label of every with_id item of a submenu.
IdLabels(items) == { <<items[i].id, items[i].label>> : i \in { j \in DOMAIN items : items[j].kind = "item" } }

\* The actions whose placement differs by platform.
PlacedByPlatform == {"preferences", "check_updates"}

SharedTitles == {"File", "Edit", "View", "Reading", "Help"}

SharedItems(tree, title) ==
    { p \in IdLabels(SubmenuOf(tree, title).items) : p[1] \notin PlacedByPlatform }

\* C11: the placement of Preferences / About / Check for Updates apart, the
\* File, Edit, View, Reading and Help submenus of the menu that was built
\* carry the same item identifiers and labels as those of every other
\* platform's menu.
C11_SameSubmenus ==
    menu # <<>> =>
        \A os \in TargetOs, title \in SharedTitles :
            SharedItems(CreateMenuTree(platform), title) = SharedItems(CreateMenuTree(os), title)

----------------------------------------------------------------------------
(* Claims about the commands.                                               *)

\* The message prefixes each command formats its errors with.
ErrorPrefixes(cmd) ==
    CASE cmd = "read_file" -> {"Failed to read file: "}
      [] cmd = "write_file" -> {"Failed to write file: "}
      [] cmd = "show_notification" -> {"Failed to show notification: "}
      [] cmd = "get_store_value" -> {"Failed to open store: "}
      [] cmd = "set_store_value" -> {"Failed to open store: ", "Failed to save store: "}
      [] cmd = "check_for_updates" -> {"Updater not available: ", "Failed to check for updates: "}
      [] OTHER -> {}

\* The provider the last command called reported a failure.
ProviderFailed == resp.cause \notin {"ok", "canceled"}

\* C12: when the provider a command calls fails, the command returns Err
\* carrying a message made of the command's prefix and the provider's cause;
\* the event loop keeps running, no exit code is set, and the invoke handler
\* still accepts the next command.
C12_FailuresReturned ==
    /\ pc = "running"
    /\ exitCode = <<>>
    /\ (ProviderFailed <=> ~resp.result.ok)
    /\ (~resp.result.ok =>
            /\ resp.result.value[1] \in ErrorPrefixes(resp.cmd)
            /\ resp.result.value[2] = resp.cause
            /\ (nCmds < MaxCommands => Accepts))

\* A command answered Ok right after another one had answered Err.
C12_Witness ==
    /\ resp.prevFailed
    /\ resp.result.ok
    /\ resp.cmd \in {"read_file", "get_store_value"}
    /\ pc = "running"

\* C13: a dismissed dialog is answered with Ok: open_file_dialog with
\* canceled = true and no paths, whatever `multiple` was, and
\* save_file_dialog with canceled = true and no path; a dialog that was not
\* dismissed is answered with canceled = false.
C13_CancelIsSuccess ==
    /\ (resp.cmd = "open_file_dialog" =>
            /\ resp.result.ok
            /\ (resp.result.value.canceled <=> resp.cause = "canceled")
            /\ (resp.cause = "canceled" => resp.result.value.paths = <<>>))
    /\ (resp.cmd = "save_file_dialog" =>
            /\ resp.result.ok
            /\ (resp.result.value.canceled <=> resp.cause = "canceled")
            /\ (resp.cause = "canceled" => resp.result.value.path = None))

\* The user dismissed an open dialog that allowed several files.
C13_Witness ==
    /\ resp.cmd = "open_file_dialog"
    /\ resp.args[2] = Some(TRUE)
    /\ resp.cause = "canceled"
    /\ resp.result.value.canceled

\* C14: the dialog of open_file_dialog and the dialog of save_file_dialog
\* both carry the four book filters.
C14_SameFilters ==
    resp.cmd \in {"open_file_dialog", "save_file_dialog"} =>
        resp.dialog.filters = BookFilters(FileDialog).filters

\* C15: with no set_store_value in flight, a get_store_value whose store
\* opened answers Ok with the value the last applied set gave the key, the
\* JSON null included, and with None for a key no set was applied to; only a
\* store that does not open makes it answer Err.
C15_RoundTrip ==
    (resp.cmd = "get_store_value" /\ tasks = <<>>) =>
        IF resp.cause = "ok"
        THEN /\ resp.result = Ok(lastSet[resp.args[1]].value)
             /\ (lastSet[resp.args[1]].by = 0 <=> resp.result.value = None)
        ELSE resp.result = Err("Failed to open store: ", resp.cause)

\* A get returned the explicit null that an earlier set had written.
C15_Witness ==
    /\ resp.cmd = "get_store_value"
    /\ tasks = <<>>
    /\ resp.result = Ok(Some("null"))
    /\ lastSet[resp.args[1]].by # 0

\* C16: the in-memory value of every key is the one of the set applied last
\* to that key (a key no set was applied to keeps None), and once every
\* invocation has returned, the last of them with Ok, the persisted store
\* equals the in-memory store.
C16_LastWriteWins ==
    /\ \A k \in Keys : mem[k] = lastSet[k].value
    /\ (tasks = <<>> /\ resp.cmd = "set_store_value" /\ resp.result.ok) => disk = mem

\* Two invocations wrote different values to one key; the first saved last,
\* after the second one's set had been applied.
C16_Witness ==
    /\ tasks = <<>>
    /\ resp.cmd = "set_store_value"
    /\ resp.result.ok
    /\ resp.id = 1
    /\ lastSet[resp.args[1]].by = 2
    /\ mem[resp.args[1]] # Some(resp.args[2])

\* C20: a set_store_value whose save failed answers Err "Failed to save
\* store", nothing was persisted for its key since the set, and unless
\* another invocation's set came after, the in-memory value is the new one
\* and a get_store_value answers with it; a set_store_value whose store did
\* not open answers Err "Failed to open store" and applied no set.
C20_SetNotAtomic ==
    /\ (resp.cmd = "set_store_value" /\ resp.step = "save" /\ resp.cause # "ok") =>
            /\ resp.result = Err("Failed to save store: ", resp.cause)
            /\ (lastSet[resp.args[1]].by = resp.id =>
                    /\ mem[resp.args[1]] = Some(resp.args[2])
                    /\ GetStoreValue(mem, resp.args[1], "ok") = Ok(Some(resp.args[2])))
    /\ (resp.cmd = "set_store_value" /\ resp.step = "open") =>
            /\ resp.result = Err("Failed to open store: ", resp.cause)
            /\ \A k \in Keys : lastSet[k].by # resp.id
            /\ \A i \in DOMAIN tasks : tasks[i].id # resp.id

\* After the only set_store_value failed to save, a get_store_value returned
\* the new value while the persisted store still holds the previous one.
C20_Witness ==
    /\ resp.cmd = "get_store_value"
    /\ resp.prevFailed
    /\ tasks = <<>>
    /\ nCmds = 2
    /\ lastSet[resp.args[1]].by = 1
    /\ resp.result = Ok(mem[resp.args[1]])
    /\ disk[resp.args[1]] = None
    /\ mem[resp.args[1]] # None

----------------------------------------------------------------------------
(* Claims about emitted events, the order of setup and swallowed failures.  *)

NavigatePaths == { PathOf(id) : id \in NavigatingIds }

\* C17: every emitted event is navigate with one of the four paths; an
\* event of the tray menu, the tray icon or the window adds one emitted event
\* at most, and adds it only when it is the activation of a navigating tray
\* item, which then carries that item's path; so the emitted events never
\* outnumber the events dispatched.
C17_OnlyNavigate ==
    /\ \A i \in DOMAIN emitted :
          emitted[i].event = "navigate" /\ emitted[i].payload \in NavigatePaths
    /\ Len(emitted) <= nEvents
    /\ last.kind # "none" =>
          \/ emitted = last.before.emitted
          \/ /\ last.kind = "menu" /\ last.id \in NavigatingIds
             /\ emitted = Append(last.before.emitted, Navigate(PathOf(last.id)))

\* Two navigating activations in a row, each of which emitted its event.
C17_Witness ==
    /\ AfterMenu("tray_continue")
    /\ Len(emitted) = nEvents
    /\ Len(last.before.emitted) + 1 = Len(emitted)
    /\ last.before.emitted # <<>>

SetupDone == pc \in {"setup_complete", "running", "exited", "panicked"}

TrayHandled == last.kind \in {"menu", "pointer"}

\* The calls the arm run last makes on a window it found, whatever they return.
ExpectedOps ==
    IF last.kind = "menu"
    THEN IF last.id \in NavigatingIds THEN {<<"show", "set_focus", "emit">>}
         ELSE IF last.id = "tray_show" THEN {<<"show", "set_focus">>}
         ELSE IF last.id = "tray_hide" THEN {<<"hide">>}
         ELSE IF last.id = "tray_quit" THEN {<<"exit">>}
         ELSE {<<>>}
    ELSE IF AfterClick THEN {<<"is_visible", "hide">>, <<"is_visible", "show", "set_focus">>}
         ELSE IF AfterDoubleClick THEN {<<"show", "set_focus">>}
         ELSE {<<>>}

\* C19: a tray menu or tray icon handler never panics and, tray_quit apart,
\* leaves the event loop running with no exit code, whatever its calls
\* returned; on a window it found it makes all the calls of its arm, a failed
\* show being followed by set_focus and emit all the same, and a call that
\* failed leaves what it would have changed as it was; without a window it
\* makes no call on one and changes nothing (tray_quit still exits); while
\* the loop runs the next tray event is handled.
C19_FailuresSwallowed ==
    /\ TrayHandled =>
          /\ pc # "panicked"
          /\ (~AfterMenu("tray_quit") => pc = "running" /\ exitCode = <<>>)
          /\ (last.before.exists => OpsOf(last.calls) \in ExpectedOps)
          /\ (~last.before.exists =>
                 /\ OpsOf(last.calls) = (IF AfterMenu("tray_quit") THEN <<"exit">> ELSE <<>>)
                 /\ WindowAsBefore
                 /\ emitted = last.before.emitted)
          /\ ((CallErr("show") /\ ~CallOk("hide")) => visible = last.before.visible)
          /\ (CallErr("hide") => visible = last.before.visible)
          /\ (CallErr("set_focus") => focused = last.before.focused)
          /\ (CallErr("emit") => emitted = last.before.emitted)
    /\ (pc = "running" /\ nEvents < MaxEvents) => ENABLED MenuEvent /\ ENABLED TrayIconEvent

\* After an event one of whose calls failed, a navigating activation whose
\* show failed went on to focus the window and emit its event.
C19_Witness ==
    /\ last.kind = "menu"
    /\ last.id \in NavigatingIds
    /\ ~last.before.prior.ok
    /\ CallErr("show") /\ CallOk("set_focus") /\ CallOk("emit")
    /\ focused
    /\ emitted # last.before.emitted

----------------------------------------------------------------------------
(* Claim about recovering the hidden window.                                *)

\* The macOS build once setup has found the main window and completed,
\* tray_quit not having been activated: on macOS nothing else sets an exit
\* code.
MinimizeToTray ==
    platform = "macos" /\ closeHandler /\ pc \notin {"setup_complete", "exited"}

\* C21: on macOS, after a setup that found the main window and any events
\* without tray_quit, the main window exists and the event loop runs, and a
\* tray_show activation or a tray double-click whose calls return Ok leaves
\* the window visible and focused.
C21_HiddenRecoverable ==
    MinimizeToTray =>
        /\ exists
        /\ pc = "running"
        /\ (((AfterMenu("tray_show") \/ AfterDoubleClick) /\ AllCallsOk) =>
                visible /\ focused)

====
